---- MODULE Spec2Model ----
(***************************************************************************)
(* Time-series ingestion of TerrariumPI (terrariumDatabase.py): the        *)
(* history ledgers of Sensor, Relay and Button, the update methods that    *)
(* write them, and the properties that read the current value back under   *)
(* a staleness window.                                                     *)
(*                                                                         *)
(* Time is the wall clock datetime.now(), counted in whole seconds from a  *)
(* minute-aligned origin.  It never runs backwards here, but two calls may *)
(* read the same clock value.  An update call reads the clock once.        *)
(* Python floats are modelled as exact rationals [n, d] in lowest terms.   *)
(* The three history tables share nothing but the clock, so a behaviour of *)
(* Spec polls the devices of one kind (polled); SpecConc runs two callers  *)
(* of Sensor.update step by step, each in a transaction of its own.        *)
(***************************************************************************)
EXTENDS Integers, Sequences, FiniteSets, TLC

VARIABLES
  now,            \* datetime.now(), in seconds
  ticks,          \* number of clock advances so far
  polled,         \* the kind of device whose polling collaborator delivers readings
  sensorHistory,  \* table SensorHistory: set of rows
  relayHistory,   \* table RelayHistory: set of rows
  buttonHistory,  \* table ButtonHistory: set of rows
  sensorCfg,      \* Sensor entity fields limit_min, limit_max, alarm_min, alarm_max
  relayCfg,       \* Relay entity fields wattage, flow
  received,       \* history: per sensor, minute bucket -> readings received, in call order
  last,           \* history: the most recent update call and its outcome
  pc,             \* concurrent callers of Sensor.update: position of each
  local           \* concurrent callers of Sensor.update: local variables of each

vars == <<now, ticks, polled, sensorHistory, relayHistory, buttonHistory, sensorCfg,
          relayCfg, received, last, pc, local>>

-----------------------------------------------------------------------------
(* Bounds of the model *)

MaxCalls == 3
MaxTicks == 2
\* update calls in SpecFull, which has more inputs and more operations than Spec
MaxFullCalls == 2

Sensors == {"s1"}
Relays == {"r1", "r2"}
Buttons == {"b1"}
Callers == {"a", "b"}
\* the caller that reads Sensor.alarm in SpecAlarm
Readers == {"a"}

\* seconds by which one clock advance moves the clock
Steps == {1, 60, 300, 3900}

-----------------------------------------------------------------------------
(* Python floats as exact rationals *)

RECURSIVE GCD(_, _)
GCD(a, b) == IF b = 0 THEN a ELSE GCD(b, a % b)

Abs(x) == IF x < 0 THEN -x ELSE x

\* n / d in lowest terms, d > 0
Rat(n, d) ==
  LET g == GCD(Abs(n), Abs(d))
      s == IF d < 0 THEN -1 ELSE 1
  IN  [n |-> (s * n) \div g, d |-> (s * d) \div g]

R(i) == [n |-> i, d |-> 1]

\* Python None where a float is expected (no rational has denominator 0)
None == [n |-> 0, d |-> 0]

RatAdd(a, b) == Rat(a.n * b.d + b.n * a.d, a.d * b.d)
RatMul(a, b) == Rat(a.n * b.n, a.d * b.d)
RatDiv(a, b) == Rat(a.n * b.d, a.d * b.n)
RatLeq(a, b) == a.n * b.d <= b.n * a.d
RatLt(a, b) == a.n * b.d < b.n * a.d

\* readings delivered to update(); None is "no reading"
Readings == {R(10), R(20), R(30)}
RelayValues == {R(0), R(100)}
ButtonValues == {R(0), R(1)}

\* a reading that is not a number (a string, say)
Bad == [n |-> 1, d |-> 0]

\* the readings SpecFull delivers to a sensor
FullReadings == {R(10), R(30), Bad}

\* the relay SpecFull polls and configures
FullRelays == {"r1"}

\* relay readings with a dimmer's half power among them
DimmerValues == {R(0), R(50), R(100)}

\* (limit_min, limit_max) pairs the configuration collaborator writes to a Sensor
LimitRanges == {<<R(0), R(100)>>, <<R(5), R(50)>>}

\* (wattage, flow) pairs the configuration collaborator writes to a Relay
Coefficients == {<<R(0), R(0)>>, <<R(40), R(2)>>}

\* (alarm_min, alarm_max) pairs the configuration collaborator writes to a Sensor
AlarmRanges == {<<R(0), R(100)>>, <<R(12), R(18)>>}

-----------------------------------------------------------------------------
(* Program constants *)

Sensor_MAX_VALUE_AGE == 5 * 60
Relay_MAX_VALUE_AGE == 65 * 60
Button_MAX_VALUE_AGE == 65 * 60
VALUE_MODE == 2

-----------------------------------------------------------------------------
(* Storage: the primary key (owner, timestamp) of a history table *)

\* creating a row whose primary key exists raises an integrity error
SensorKeyFree(s, ts) == ~ \E h \in sensorHistory : h.sensor = s /\ h.timestamp = ts
RelayKeyFree(r, ts) == ~ \E h \in relayHistory : h.relay = r /\ h.timestamp = ts
ButtonKeyFree(b, ts) == ~ \E h \in buttonHistory : h.button = b /\ h.timestamp = ts

-----------------------------------------------------------------------------
(* Sensor *)

\* variant: replace(minute=0, second=0, microsecond=0)
Hour(t) == t - (t % 3600)

\* datetime.now().replace(second=0, microsecond=0)
Minute(t) == t - (t % 60)

\* variant: the probe compares with the clock as read, seconds included
SensorProbeExact(s, timestamp) ==
  {h \in sensorHistory : h.sensor = s /\ h.timestamp = now}

\* self.history.filter(lambda h: h.timestamp == timestamp)
SensorProbe(s, timestamp) ==
  {h \in sensorHistory : h.sensor = s /\ h.timestamp = timestamp}

\* Sensor.value
SensorValue(s) ==
  LET timestamp_limit == now - Sensor_MAX_VALUE_AGE
      rows == {h \in sensorHistory : h.sensor = s /\ h.timestamp >= timestamp_limit}
  IN  IF rows = {} THEN None
      ELSE (CHOOSE h \in rows : \A g \in rows : g.timestamp <= h.timestamp).value

\* Sensor.error
SensorError(s) == IF SensorValue(s) = None THEN TRUE ELSE FALSE

\* variant: the alarm is taken from the thresholds stored in the current row
SensorAlarmSnapshot(s) ==
  LET rows == {h \in sensorHistory :
                 h.sensor = s /\ h.timestamp >= now - Sensor_MAX_VALUE_AGE}
      cur  == CHOOSE h \in rows : \A g \in rows : g.timestamp <= h.timestamp
  IN  IF rows = {} THEN FALSE
      ELSE ~ (RatLeq(cur.alarm_min, cur.value) /\ RatLeq(cur.value, cur.alarm_max))

\* Sensor.alarm
SensorAlarm(s) ==
  IF SensorError(s) THEN FALSE
  ELSE ~ (RatLeq(sensorCfg[s].alarm_min, SensorValue(s))
          /\ RatLeq(SensorValue(s), sensorCfg[s].alarm_max))

\* (a + b) / 2
Avg(a, b) == RatDiv(RatAdd(a, b), R(2))

\* variant: the merge overwrites, as mode 3 does
SensorMergeOverwrite(h, cfg, value) ==
  [h EXCEPT !.value = value,
            !.limit_min = cfg.limit_min, !.limit_max = cfg.limit_max,
            !.alarm_min = cfg.alarm_min, !.alarm_max = cfg.alarm_max]

\* variant: a + b / 2 in place of (a + b) / 2
SensorMergeUnparenthesised(h, cfg, value) ==
  [h EXCEPT
    !.value     = RatAdd(h.value, RatDiv(value, R(2))),
    !.limit_min = RatAdd(h.limit_min, RatDiv(cfg.limit_min, R(2))),
    !.limit_max = RatAdd(h.limit_max, RatDiv(cfg.limit_max, R(2))),
    !.alarm_min = RatAdd(h.alarm_min, RatDiv(cfg.alarm_min, R(2))),
    !.alarm_max = RatAdd(h.alarm_max, RatDiv(cfg.alarm_max, R(2)))]

\* variant: the merge averages the value and leaves the stored thresholds alone
SensorMergeValueOnly(h, cfg, value) ==
  [h EXCEPT !.value = Avg(h.value, value)]

\* variant: the merge adds the reading and does not halve
SensorMergeSum(h, cfg, value) ==
  [h EXCEPT
    !.value     = RatAdd(h.value, value),
    !.limit_min = Avg(h.limit_min, cfg.limit_min),
    !.limit_max = Avg(h.limit_max, cfg.limit_max),
    !.alarm_min = Avg(h.alarm_min, cfg.alarm_min),
    !.alarm_max = Avg(h.alarm_max, cfg.alarm_max)]

\* the assignments to an existing row of the bucket
SensorMerge(h, cfg, value) ==
  [h EXCEPT
    !.value     = IF VALUE_MODE = 3 THEN value         ELSE Avg(h.value, value),
    !.limit_min = IF VALUE_MODE = 3 THEN cfg.limit_min ELSE Avg(h.limit_min, cfg.limit_min),
    !.limit_max = IF VALUE_MODE = 3 THEN cfg.limit_max ELSE Avg(h.limit_max, cfg.limit_max),
    !.alarm_min = IF VALUE_MODE = 3 THEN cfg.alarm_min ELSE Avg(h.alarm_min, cfg.alarm_min),
    !.alarm_max = IF VALUE_MODE = 3 THEN cfg.alarm_max ELSE Avg(h.alarm_max, cfg.alarm_max)]

\* SensorHistory(sensor = self, timestamp = timestamp, value = value, ...)
SensorNew(s, cfg, timestamp, value) ==
  [sensor |-> s, timestamp |-> timestamp, value |-> value,
   limit_min |-> cfg.limit_min, limit_max |-> cfg.limit_max,
   alarm_min |-> cfg.alarm_min, alarm_max |-> cfg.alarm_max]

\* the readings of a bucket, with one more appended
Noted(rec, bucket, value) ==
  IF bucket \in DOMAIN rec
  THEN [rec EXCEPT ![bucket] = Append(@, value)]
  ELSE rec @@ (bucket :> <<value>>)

\* the record of one update call: its arguments, the clock it read, what it did
\* ("null", "none", "kept", "insert", "merge", "conflict" or "invalid"), the value it
\* compared
\* with or merged into, and the value of the row it wrote
Call(kind, owner, value, force, res, before, stored) ==
  [id |-> last.id + 1, kind |-> kind, owner |-> owner, value |-> value,
   force |-> force, at |-> now, res |-> res, before |-> before, stored |-> stored]

\* value is a number: (sensor_data.value + value) / 2 and the float attribute
\* SensorHistory.value take it; anything else raises there
SensorAccepts(value) == value.d # 0

\* Sensor.update(value)
SensorUpdate(s, value) ==
  /\ polled = "sensor"
  /\ last.id < MaxCalls
  /\ UNCHANGED <<now, ticks, polled, relayHistory, buttonHistory, sensorCfg, relayCfg, pc, local>>
  /\ IF value = None
     THEN /\ UNCHANGED <<sensorHistory, received>>
          /\ last' = Call("sensor", s, value, FALSE, "null", None, None)
     ELSE
       LET timestamp   == Minute(now)
           sensor_data == SensorProbe(s, timestamp)
           old         == CHOOSE h \in sensor_data : TRUE
       IN  IF ~ (sensor_data # {} /\ VALUE_MODE = 1) /\ ~ SensorAccepts(value)
           THEN /\ UNCHANGED <<sensorHistory, received>>
                /\ last' = Call("sensor", s, value, FALSE, "invalid", None, None)
           ELSE
           /\ received' = [received EXCEPT ![s] = Noted(@, 60 * (now \div 60), value)]
           /\ IF sensor_data # {} /\ VALUE_MODE = 1
              THEN /\ UNCHANGED sensorHistory
                   /\ last' = Call("sensor", s, value, FALSE, "kept", old.value, old.value)
              ELSE IF sensor_data # {}
              THEN /\ sensorHistory' =
                        (sensorHistory \ {old}) \cup {SensorMerge(old, sensorCfg[s], value)}
                   /\ last' = Call("sensor", s, value, FALSE, "merge", old.value,
                                   SensorMerge(old, sensorCfg[s], value).value)
              ELSE IF SensorKeyFree(s, timestamp)
              THEN /\ sensorHistory' =
                        sensorHistory \cup {SensorNew(s, sensorCfg[s], timestamp, value)}
                   /\ last' = Call("sensor", s, value, FALSE, "insert", None, value)
              ELSE /\ UNCHANGED sensorHistory
                   /\ last' = Call("sensor", s, value, FALSE, "conflict", None, None)

\* the configuration collaborator writes Sensor.alarm_min and Sensor.alarm_max
SetAlarm(s, lo, hi) ==
  /\ polled = "sensor"
  /\ <<sensorCfg[s].alarm_min, sensorCfg[s].alarm_max>> # <<lo, hi>>
  /\ sensorCfg' = [sensorCfg EXCEPT ![s].alarm_min = lo, ![s].alarm_max = hi]
  /\ UNCHANGED <<now, ticks, polled, sensorHistory, relayHistory, buttonHistory, relayCfg,
                 received, last, pc, local>>

\* the configuration collaborator writes Sensor.limit_min and Sensor.limit_max
SetLimits(s, lo, hi) ==
  /\ polled = "sensor"
  /\ <<sensorCfg[s].limit_min, sensorCfg[s].limit_max>> # <<lo, hi>>
  /\ sensorCfg' = [sensorCfg EXCEPT ![s].limit_min = lo, ![s].limit_max = hi]
  /\ UNCHANGED <<now, ticks, polled, sensorHistory, relayHistory, buttonHistory, relayCfg,
                 received, last, pc, local>>

-----------------------------------------------------------------------------
(* Relay *)

\* variant: order_by without desc, the oldest row of the window
RelayValueOldest(r) ==
  LET timestamp_limit == now - Relay_MAX_VALUE_AGE
      rows == {h \in relayHistory : h.relay = r /\ h.timestamp >= timestamp_limit}
  IN  IF rows = {} THEN None
      ELSE (CHOOSE h \in rows : \A g \in rows : h.timestamp <= g.timestamp).value

\* variant: a row exactly as old as the window does not count
RelayValueStrict(r) ==
  LET timestamp_limit == now - Relay_MAX_VALUE_AGE
      rows == {h \in relayHistory : h.relay = r /\ h.timestamp > timestamp_limit}
  IN  IF rows = {} THEN None
      ELSE (CHOOSE h \in rows : \A g \in rows : g.timestamp <= h.timestamp).value

\* Relay.value
RelayValue(r) ==
  LET timestamp_limit == now - Relay_MAX_VALUE_AGE
      rows == {h \in relayHistory : h.relay = r /\ h.timestamp >= timestamp_limit}
  IN  IF rows = {} THEN None
      ELSE (CHOOSE h \in rows : \A g \in rows : g.timestamp <= h.timestamp).value

\* variant: "not self.value", which takes a value of 0 for no value
RelayErrorFalsy(r) == RelayValue(r) = None \/ RelayValue(r) = R(0)

\* Relay.error
RelayError(r) == IF RelayValue(r) = None THEN TRUE ELSE FALSE

\* variant: the newest row decides, however old it is
IsOnLatest(r) ==
  \E h \in relayHistory :
    /\ h.relay = r
    /\ \A g \in relayHistory : g.relay = r => g.timestamp <= h.timestamp
    /\ RatLt(R(0), h.value)

\* Relay.is_on
IsOn(r) == RelayValue(r) # None /\ RatLt(R(0), RelayValue(r))

\* Relay.is_off
IsOff(r) == ~ IsOn(r)

\* Relay.current_wattage
CurrentWattage(r) ==
  IF RelayValue(r) = None THEN R(0)
  ELSE RatDiv(RatMul(RelayValue(r), relayCfg[r].wattage), R(100))

\* Relay.current_flow
CurrentFlow(r) ==
  IF RelayValue(r) = None THEN R(0)
  ELSE RatDiv(RatMul(RelayValue(r), relayCfg[r].flow), R(100))

\* variant: the gate compares with the last stored row, however old it is
RelayGateLastRow(r, new_value, force) ==
  \/ force
  \/ ~ \E h \in relayHistory :
         /\ h.relay = r
         /\ \A g \in relayHistory : g.relay = r => g.timestamp <= h.timestamp
         /\ h.value = new_value

\* force or new_value != self.value
RelayGate(r, new_value, force) == force \/ new_value # RelayValue(r)

\* variant: the stored metrics leave out the division by 100
RelayNewWhole(r, cfg, timestamp, new_value) ==
  [relay |-> r, timestamp |-> timestamp, value |-> new_value,
   wattage |-> RatMul(new_value, cfg.wattage),
   flow    |-> RatMul(new_value, cfg.flow)]

\* RelayHistory(relay = self, timestamp = datetime.now(), value = new_value, ...)
RelayNew(r, cfg, timestamp, new_value) ==
  [relay |-> r, timestamp |-> timestamp, value |-> new_value,
   wattage |-> RatMul(RatDiv(new_value, R(100)), cfg.wattage),
   flow    |-> RatMul(RatDiv(new_value, R(100)), cfg.flow)]

\* new_value is a number: new_value / 100.0 succeeds; on anything else it raises
RelayAccepts(new_value) == new_value.d # 0

\* variant: Relay.update without the test for "no reading"
RelayUpdateUnchecked(r, new_value, force) ==
  /\ polled = "relay"
  /\ last.id < MaxCalls
  /\ UNCHANGED <<now, ticks, polled, sensorHistory, buttonHistory, sensorCfg, relayCfg,
                 received, pc, local>>
  /\ IF force \/ new_value # RelayValue(r)
     THEN /\ RelayKeyFree(r, now)
          /\ relayHistory' =
               relayHistory \cup {[relay |-> r, timestamp |-> now, value |-> new_value,
                                   wattage |-> R(0), flow |-> R(0)]}
          /\ last' = Call("relay", r, new_value, force, "insert", RelayValue(r),
                          new_value)
     ELSE /\ UNCHANGED relayHistory
          /\ last' = Call("relay", r, new_value, force, "none", RelayValue(r), None)

\* Relay.update(new_value, force)
RelayUpdate(r, new_value, force) ==
  /\ polled = "relay"
  /\ last.id < MaxCalls
  /\ UNCHANGED <<now, ticks, polled, sensorHistory, buttonHistory, sensorCfg, relayCfg,
                 received, pc, local>>
  /\ IF new_value = None
     THEN /\ UNCHANGED relayHistory
          /\ last' = Call("relay", r, new_value, force, "null", RelayValue(r), None)
     ELSE IF RelayGate(r, new_value, force)
     THEN IF ~ RelayAccepts(new_value)
          THEN /\ UNCHANGED relayHistory
               /\ last' = Call("relay", r, new_value, force, "invalid", RelayValue(r),
                               None)
          ELSE IF RelayKeyFree(r, now)
          THEN /\ relayHistory' =
                    relayHistory \cup {RelayNew(r, relayCfg[r], now, new_value)}
               /\ last' = Call("relay", r, new_value, force, "insert", RelayValue(r),
                               new_value)
          ELSE /\ UNCHANGED relayHistory
               /\ last' = Call("relay", r, new_value, force, "conflict", RelayValue(r),
                               None)
     ELSE /\ UNCHANGED relayHistory
          /\ last' = Call("relay", r, new_value, force, "none", RelayValue(r), None)

\* the configuration collaborator writes Relay.wattage and Relay.flow
SetCoefficients(r, w, f) ==
  /\ polled = "relay"
  /\ <<relayCfg[r].wattage, relayCfg[r].flow>> # <<w, f>>
  /\ relayCfg' = [relayCfg EXCEPT ![r].wattage = w, ![r].flow = f]
  /\ UNCHANGED <<now, ticks, polled, sensorHistory, relayHistory, buttonHistory,
                 sensorCfg, received, last, pc, local>>

-----------------------------------------------------------------------------
(* Button *)

\* Button.value
ButtonValue(b) ==
  LET timestamp_limit == now - Button_MAX_VALUE_AGE
      rows == {h \in buttonHistory : h.button = b /\ h.timestamp >= timestamp_limit}
  IN  IF rows = {} THEN None
      ELSE (CHOOSE h \in rows : \A g \in rows : g.timestamp <= h.timestamp).value

\* Button.error
ButtonError(b) == IF ButtonValue(b) = None THEN TRUE ELSE FALSE

\* force or new_value != self.value
ButtonGate(b, new_value, force) == force \/ new_value # ButtonValue(b)

\* ButtonHistory(button = self, timestamp = datetime.now(), value = new_value)
ButtonNew(b, timestamp, new_value) ==
  [button |-> b, timestamp |-> timestamp, value |-> new_value]

\* variant: the attribute takes any value
ButtonAcceptsAny(new_value) == TRUE

\* new_value is a number: the float attribute ButtonHistory.value takes it; the
\* constructor raises on anything else
ButtonAccepts(new_value) == new_value.d # 0

\* Button.update(new_value, force)
ButtonUpdate(b, new_value, force) ==
  /\ polled = "button"
  /\ last.id < MaxCalls
  /\ UNCHANGED <<now, ticks, polled, sensorHistory, relayHistory, sensorCfg, relayCfg,
                 received, pc, local>>
  /\ IF new_value = None
     THEN /\ UNCHANGED buttonHistory
          /\ last' = Call("button", b, new_value, force, "null", ButtonValue(b), None)
     ELSE IF ButtonGate(b, new_value, force)
     THEN IF ~ ButtonAccepts(new_value)
          THEN /\ UNCHANGED buttonHistory
               /\ last' = Call("button", b, new_value, force, "invalid", ButtonValue(b),
                               None)
          ELSE IF ButtonKeyFree(b, now)
          THEN /\ buttonHistory' = buttonHistory \cup {ButtonNew(b, now, new_value)}
               /\ last' = Call("button", b, new_value, force, "insert", ButtonValue(b),
                               new_value)
          ELSE /\ UNCHANGED buttonHistory
               /\ last' = Call("button", b, new_value, force, "conflict", ButtonValue(b),
                               None)
     ELSE /\ UNCHANGED buttonHistory
          /\ last' = Call("button", b, new_value, force, "none", ButtonValue(b), None)

-----------------------------------------------------------------------------
(* The clock *)

Tick(d) ==
  /\ ticks < MaxTicks
  /\ now' = now + d
  /\ ticks' = ticks + 1
  /\ UNCHANGED <<polled, sensorHistory, relayHistory, buttonHistory, sensorCfg,
                 relayCfg, received, last, pc, local>>

-----------------------------------------------------------------------------

NoCall ==
  [id |-> 0, kind |-> "none", owner |-> "", value |-> None, force |-> FALSE,
   at |-> 0, res |-> "", before |-> None, stored |-> None]

\* a caller outside Sensor.update
NoLocal == [sensor |-> "", value |-> None, timestamp |-> 0, found |-> {}, res |-> ""]

Kinds == {"sensor", "relay", "button"}

Init ==
  /\ now = 0
  /\ ticks = 0
  /\ polled \in Kinds
  /\ sensorHistory = {}
  /\ relayHistory = {}
  /\ buttonHistory = {}
  /\ sensorCfg = [s \in Sensors |->
                   [limit_min |-> R(0), limit_max |-> R(100),
                    alarm_min |-> R(0), alarm_max |-> R(100)]]
  /\ relayCfg = [r \in Relays |-> [wattage |-> R(0), flow |-> R(0)]]
  /\ received = [s \in Sensors |-> <<>>]
  /\ last = NoCall
  /\ pc = [c \in Callers |-> "idle"]
  /\ local = [c \in Callers |-> NoLocal]

Next ==
  \/ \E d \in Steps : Tick(d)
  \/ \E s \in Sensors, v \in Readings \cup {None} : SensorUpdate(s, v)
  \/ \E s \in Sensors, a \in AlarmRanges : SetAlarm(s, a[1], a[2])
  \/ \E r \in Relays, v \in RelayValues \cup {None}, f \in BOOLEAN : RelayUpdate(r, v, f)
  \/ \E b \in Buttons, v \in ButtonValues \cup {None}, f \in BOOLEAN : ButtonUpdate(b, v, f)

Spec == Init /\ [][Next]_vars

\* every operation and every input, for fewer calls
NextFull ==
  \/ \E d \in Steps : Tick(d)
  \/ /\ last.id < MaxFullCalls
     /\ \E s \in Sensors, v \in FullReadings : SensorUpdate(s, v)
  \/ \E s \in Sensors, a \in AlarmRanges : SetAlarm(s, a[1], a[2])
  \/ \E s \in Sensors, a \in LimitRanges : SetLimits(s, a[1], a[2])
  \/ /\ last.id < MaxFullCalls
     /\ \E r \in FullRelays, v \in DimmerValues \cup {Bad}, f \in BOOLEAN :
          RelayUpdate(r, v, f)
  \/ \E r \in FullRelays, c \in Coefficients : SetCoefficients(r, c[1], c[2])
  \/ /\ last.id < MaxFullCalls
     /\ \E b \in Buttons, v \in ButtonValues \cup {Bad}, f \in BOOLEAN :
          ButtonUpdate(b, v, f)

SpecFull == Init /\ [][NextFull]_vars

-----------------------------------------------------------------------------
(* Two callers in Sensor.update at once, each in a transaction of its own *)

\* Sensor.update up to the probe: the clock is read and the bucket's row is queried
ConcProbe(c, s, value) ==
  /\ pc[c] = "idle"
  /\ last.id < MaxCalls
  /\ last' = [last EXCEPT !.id = @ + 1]
  /\ pc' = [pc EXCEPT ![c] = "probed"]
  /\ local' = [local EXCEPT ![c] =
                 [sensor |-> s, value |-> value, timestamp |-> Minute(now),
                  found |-> SensorProbe(s, Minute(now)), res |-> ""]]
  /\ UNCHANGED <<now, ticks, polled, sensorHistory, relayHistory, buttonHistory,
                 sensorCfg, relayCfg, received>>

\* Sensor.update from the probe on: the row read is merged and written back, or a
\* new row is created; a new row whose key exists by now raises an integrity error
ConcWrite(c) ==
  /\ pc[c] = "probed"
  /\ pc' = [pc EXCEPT ![c] = "done"]
  /\ LET l           == local[c]
         sensor_data == l.found
         old         == CHOOSE h \in sensor_data : TRUE
     IN  IF sensor_data # {} /\ VALUE_MODE = 1
         THEN /\ UNCHANGED sensorHistory
              /\ local' = [local EXCEPT ![c].res = "kept"]
         ELSE IF sensor_data # {}
         THEN /\ sensorHistory' =
                   {h \in sensorHistory :
                      ~ (h.sensor = l.sensor /\ h.timestamp = l.timestamp)}
                   \cup {SensorMerge(old, sensorCfg[l.sensor], l.value)}
              /\ local' = [local EXCEPT ![c].res = "merge"]
         ELSE IF SensorKeyFree(l.sensor, l.timestamp)
         THEN /\ sensorHistory' =
                   sensorHistory
                   \cup {SensorNew(l.sensor, sensorCfg[l.sensor], l.timestamp, l.value)}
              /\ local' = [local EXCEPT ![c].res = "insert"]
         ELSE /\ UNCHANGED sensorHistory
              /\ local' = [local EXCEPT ![c].res = "conflict"]
  /\ UNCHANGED <<now, ticks, polled, relayHistory, buttonHistory, sensorCfg, relayCfg,
                 received, last>>

\* the caller is handed the row or the error, and may call again
ConcReturn(c) ==
  /\ pc[c] = "done"
  /\ pc' = [pc EXCEPT ![c] = "idle"]
  /\ local' = [local EXCEPT ![c] = NoLocal]
  /\ UNCHANGED <<now, ticks, polled, sensorHistory, relayHistory, buttonHistory,
                 sensorCfg, relayCfg, received, last>>

InitConc == Init /\ polled = "sensor"

NextConc ==
  \/ \E d \in Steps : Tick(d)
  \/ \E c \in Callers, s \in Sensors, v \in Readings : ConcProbe(c, s, v)
  \/ \E c \in Callers : ConcWrite(c)
  \/ \E c \in Callers : ConcReturn(c)

SpecConc == InitConc /\ [][NextConc]_vars

-----------------------------------------------------------------------------
(* Sensor.alarm, read by a caller while the clock runs: self.error and the        *)
(* comparison each query self.value with a clock reading of their own             *)

\* if self.error: return False
AlarmCheck(c, s) ==
  /\ pc[c] = "idle"
  /\ pc' = [pc EXCEPT ![c] = IF SensorError(s) THEN "evaluated" ELSE "checked"]
  /\ local' = [local EXCEPT ![c] =
                 [sensor |-> s, value |-> SensorValue(s), timestamp |-> 0,
                  found |-> {}, res |-> IF SensorError(s) THEN "False" ELSE ""]]
  /\ UNCHANGED <<now, ticks, polled, sensorHistory, relayHistory, buttonHistory,
                 sensorCfg, relayCfg, received, last>>

\* return not self.alarm_min <= self.value <= self.alarm_max; a comparison of a
\* float with None raises TypeError
AlarmRead(c) ==
  /\ pc[c] = "checked"
  /\ pc' = [pc EXCEPT ![c] = "evaluated"]
  /\ LET s == local[c].sensor
         v == SensorValue(s)
     IN  local' = [local EXCEPT
           ![c].value = v,
           ![c].res = IF v = None THEN "TypeError"
                      ELSE IF ~ (RatLeq(sensorCfg[s].alarm_min, v)
                                 /\ RatLeq(v, sensorCfg[s].alarm_max))
                      THEN "True" ELSE "False"]
  /\ UNCHANGED <<now, ticks, polled, sensorHistory, relayHistory, buttonHistory,
                 sensorCfg, relayCfg, received, last>>

\* the caller has the result, and may read the property again
AlarmReturn(c) ==
  /\ pc[c] = "evaluated"
  /\ pc' = [pc EXCEPT ![c] = "idle"]
  /\ local' = [local EXCEPT ![c] = NoLocal]
  /\ UNCHANGED <<now, ticks, polled, sensorHistory, relayHistory, buttonHistory,
                 sensorCfg, relayCfg, received, last>>

NextAlarm ==
  \/ \E d \in Steps : Tick(d)
  \/ \E s \in Sensors, v \in Readings : SensorUpdate(s, v)
  \/ \E s \in Sensors, a \in AlarmRanges : SetAlarm(s, a[1], a[2])
  \/ \E c \in Readers, s \in Sensors : AlarmCheck(c, s)
  \/ \E c \in Readers : AlarmRead(c)
  \/ \E c \in Readers : AlarmReturn(c)

SpecAlarm == InitConc /\ [][NextAlarm]_vars

-----------------------------------------------------------------------------
(* Properties *)

SensorRows(s) == {h \in sensorHistory : h.sensor = s}
RelayRows(r) == {h \in relayHistory : h.relay = r}
ButtonRows(b) == {h \in buttonHistory : h.button = b}

\* the step is an update call
IsCall == last'.id = last.id + 1

\* C1: with one writer per sensor, the ledger holds exactly one SensorHistory row
\* for each minute in which a reading arrived and none for any other minute, and
\* no Sensor.update call ends in a uniqueness conflict.
C1_OneRowPerBucket ==
  /\ \A s \in Sensors :
       /\ \A m \in DOMAIN received[s] :
            Cardinality({h \in SensorRows(s) : h.timestamp = m}) = 1
       /\ \A h \in SensorRows(s) : h.timestamp \in DOMAIN received[s]
  /\ (last.kind = "sensor" => last.res # "conflict")

C1_Witness ==
  \E s \in Sensors :
    /\ Cardinality(DOMAIN received[s]) >= 2
    /\ \E m \in DOMAIN received[s] : Len(received[s][m]) >= 2
    /\ last.kind = "sensor" /\ last.res = "merge" /\ last.at % 60 # 0

RECURSIVE Cumulative(_)
\* s1 = r1, s(k) = (s(k-1) + r(k)) / 2
Cumulative(rs) ==
  IF Len(rs) = 1 THEN rs[1]
  ELSE LET p == Cumulative(SubSeq(rs, 1, Len(rs) - 1))
           r == rs[Len(rs)]
       IN  Rat(p.n * r.d + r.n * p.d, 2 * p.d * r.d)

\* C2: the row of a minute bucket holds the cumulative pairwise average of the
\* readings received in that minute, in call order; 10, 20, 30 give 22.5.
C2_PairwiseAverage ==
  \A s \in Sensors : \A m \in DOMAIN received[s] : \A h \in SensorRows(s) :
    h.timestamp = m =>
      /\ h.value = Cumulative(received[s][m])
      /\ (received[s][m] = <<R(10), R(20), R(30)>> => h.value = [n |-> 45, d |-> 2])

C2_Witness ==
  \E s \in Sensors : \E m \in DOMAIN received[s] : \E h \in SensorRows(s) :
    /\ h.timestamp = m
    /\ received[s][m] = <<R(10), R(20), R(30)>>
    /\ h.value = [n |-> 45, d |-> 2]
    /\ h.value # R(20)

\* rows of the relay a call is about, after the step
RowsAfter(c) == {h \in relayHistory' : h.relay = c.owner}
RowsBefore(c) == {h \in relayHistory : h.relay = c.owner}
Wrote(c) == IF c.res = "insert" THEN 1 ELSE 0

\* this step is a Relay.update that repeats the value and force of the call before it
RelayRepeat ==
  /\ IsCall
  /\ last.kind = "relay" /\ last'.kind = "relay"
  /\ last'.owner = last.owner
  /\ last'.value = last.value /\ last.value # None
  /\ last'.force = last.force

\* C3: two consecutive Relay.update calls with the same value produce exactly one
\* row without force (the first call changing the value, the second finding it
\* current) and two rows with force = true.
C3_TwoCalls ==
  [][RelayRepeat =>
       LET rows == Cardinality(RowsAfter(last)) - Cardinality(RowsBefore(last))
                   + Wrote(last)
       IN  IF last.force THEN rows = 2
           ELSE (last.before # last.value /\ now - last.at <= 3900) => rows = 1]_vars

\* C4: a Relay or Button update with a non-null value that passes the gate inserts
\* exactly one row, keyed by the clock it read, whatever earlier rows of the owner
\* are; a call that does not pass the gate writes nothing and returns none.
C4_GatedInsert ==
  [][(IsCall /\ last'.kind \in {"relay", "button"} /\ last'.value # None) =>
       LET c     == last'
           old   == IF c.kind = "relay" THEN RelayRows(c.owner) ELSE ButtonRows(c.owner)
           new   == IF c.kind = "relay"
                    THEN {h \in relayHistory' : h.relay = c.owner}
                    ELSE {h \in buttonHistory' : h.button = c.owner}
           other == IF c.kind = "relay"
                    THEN {h \in relayHistory : h.relay # c.owner}
                         = {h \in relayHistory' : h.relay # c.owner}
                    ELSE {h \in buttonHistory : h.button # c.owner}
                         = {h \in buttonHistory' : h.button # c.owner}
       IN  IF c.force \/ c.value # c.before
           THEN /\ old \subseteq new
                /\ Cardinality(new) = Cardinality(old) + 1
                /\ \A h \in new \ old : h.timestamp = now /\ h.value = c.value
                /\ other
           ELSE new = old /\ other /\ c.res = "none"]_vars

\* C5: the current value is the value of the owner's newest row among those at most
\* 300 s (Sensor) or 3900 s (Relay, Button) old, and none when there is no such row.
Newest(rows, age, v) ==
  LET fresh == {h \in rows : now - h.timestamp <= age}
  IN  IF fresh = {} THEN v = None
      ELSE \E h \in fresh : (\A g \in fresh : g.timestamp <= h.timestamp) /\ v = h.value

C5_CurrentValue ==
  /\ \A s \in Sensors : Newest(SensorRows(s), 300, SensorValue(s))
  /\ \A r \in Relays  : Newest(RelayRows(r), 3900, RelayValue(r))
  /\ \A b \in Buttons : Newest(ButtonRows(b), 3900, ButtonValue(b))

C5_Witness ==
  \E r, q \in Relays :
    /\ \E h \in RelayRows(r) : now - h.timestamp = 3900 /\ RelayValue(r) = h.value
    /\ RelayRows(q) # {} /\ RelayValue(q) = None

\* C6: the error flag is true exactly when the current value is none, and an entity
\* without history rows has current value none and error true.
C6_ErrorIffNone ==
  /\ \A s \in Sensors :
       /\ SensorError(s) <=> (SensorValue(s) = None)
       /\ SensorRows(s) = {} => SensorValue(s) = None /\ SensorError(s)
  /\ \A r \in Relays :
       /\ RelayError(r) <=> (RelayValue(r) = None)
       /\ RelayRows(r) = {} => RelayValue(r) = None /\ RelayError(r)
  /\ \A b \in Buttons :
       /\ ButtonError(b) <=> (ButtonValue(b) = None)
       /\ ButtonRows(b) = {} => ButtonValue(b) = None /\ ButtonError(b)

C6_Witness ==
  \E r, q \in Relays :
    /\ RelayValue(r) = R(0) /\ ~ RelayError(r)
    /\ RelayRows(q) = {} /\ RelayError(q)

\* C7: a relay is on iff its newest row within 3900 s holds a value above 0, off is
\* the negation of on, and a relay whose last reading is more than 65 minutes old
\* (66 minutes, for one) reports error and not on.
C7_IsOn ==
  \A r \in Relays :
    LET fresh == {h \in RelayRows(r) : now - h.timestamp <= 3900}
    IN  /\ IsOn(r) <=> \E h \in fresh : /\ \A g \in fresh : g.timestamp <= h.timestamp
                                        /\ h.value.n > 0
        /\ IsOff(r) <=> ~ IsOn(r)
        /\ (\A h \in RelayRows(r) : now - h.timestamp > 3900) =>
             RelayError(r) /\ ~ IsOn(r) /\ IsOff(r)

C7_Witness ==
  \E r \in Relays :
    /\ RelayRows(r) # {}
    /\ \A h \in RelayRows(r) : now - h.timestamp = 3960 /\ h.value = R(100)
    /\ RelayError(r) /\ ~ IsOn(r)

\* the alarm a row's own threshold snapshot gives
SnapshotAlarm(h) == ~ (RatLeq(h.alarm_min, h.value) /\ RatLeq(h.value, h.alarm_max))

\* C8: a write to the sensor's alarm thresholds leaves the ledger as it is, and the
\* alarm property then follows the new thresholds of the entity.
C8_LiveThresholds ==
  [][sensorCfg' # sensorCfg =>
       /\ sensorHistory' = sensorHistory
       /\ \A s \in Sensors :
            SensorAlarm(s)' =
              (/\ SensorValue(s) # None
               /\ ~ (/\ RatLeq(sensorCfg'[s].alarm_min, SensorValue(s))
                     /\ RatLeq(SensorValue(s), sensorCfg'[s].alarm_max)))]_vars

C8_Witness ==
  \E s \in Sensors : \E h \in SensorRows(s) :
    /\ SensorValue(s) = h.value
    /\ h.alarm_max # sensorCfg[s].alarm_max
    /\ ~ SnapshotAlarm(h)
    /\ SensorAlarm(s)

\* this step is an update that repeats the value of the call before it, without
\* force, for the same owner and in the same timestamp bucket
Repeat(kind) ==
  /\ IsCall
  /\ last.kind = kind /\ last'.kind = kind
  /\ last'.owner = last.owner
  /\ last'.value = last.value /\ last.value # None
  /\ ~ last.force /\ ~ last'.force
  /\ IF kind = "sensor" THEN now \div 60 = last.at \div 60 ELSE now = last.at

\* C9 as stated: the second of two such calls leaves the stored row as the first
\* call left it (for Relay and Button it writes nothing).
C9_Idempotent ==
  [][/\ Repeat("relay")  => relayHistory' = relayHistory
     /\ Repeat("button") => buttonHistory' = buttonHistory
     /\ Repeat("sensor") => sensorHistory' = sensorHistory]_vars

\* C9 amended: for Relay and Button the second call writes nothing; for a Sensor the
\* second call merges again, and the stored value stays v exactly when the first
\* call left v in the bucket (the bucket was empty, or held v already).
C9_IdempotentFromV ==
  [][/\ Repeat("relay")  => relayHistory' = relayHistory
     /\ Repeat("button") => buttonHistory' = buttonHistory
     /\ Repeat("sensor") =>
          /\ last'.res = "merge"
          /\ last.res = "insert" => last.stored = last.value
          /\ last.stored = last.value => last'.stored = last.value
          /\ last.stored # last.value => last'.stored # last.stored]_vars

C9_Witness ==
  \E s \in Sensors : \E v \in Readings :
    /\ last.kind = "sensor" /\ last.owner = s /\ last.res = "merge"
    /\ received[s][60 * (last.at \div 60)] = <<v, v>>
    /\ last.stored = v

\* C10: with two callers in Sensor.update for the same minute, no two rows share
\* (owner, timestamp), and no caller fails with a uniqueness conflict: the one whose
\* insert meets the other's row merges into it.
C10_MergeOrRetry ==
  /\ \A h, g \in sensorHistory :
       h.sensor = g.sensor /\ h.timestamp = g.timestamp => h = g
  /\ \A c \in Callers : local[c].res # "conflict"

\* the current value of every entity
CurrentValues ==
  <<[s \in Sensors |-> SensorValue(s)], [r \in Relays |-> RelayValue(r)],
    [b \in Buttons |-> ButtonValue(b)]>>

\* C11: an update call with no reading (None) returns none without an error and
\* leaves every history table and every current value as it was, forced or not.
C11_NullNoOp ==
  [][(IsCall /\ last'.value = None) =>
       /\ last'.res = "null"
       /\ UNCHANGED <<sensorHistory, relayHistory, buttonHistory>>
       /\ CurrentValues' = CurrentValues]_vars

C11_Witness ==
  /\ last.kind = "relay" /\ last.value = None /\ last.force /\ last.res = "null"
  /\ RelayValue(last.owner) # None

\* C12: no step removes a history row; a Relay or Button row never changes; a
\* Sensor row changes only while the clock is in its minute; a write to an entity's
\* configuration changes no row.
C12_AppendOrMerge ==
  [][/\ relayHistory \subseteq relayHistory'
     /\ buttonHistory \subseteq buttonHistory'
     /\ \A h \in sensorHistory :
          /\ \E g \in sensorHistory' : g.sensor = h.sensor /\ g.timestamp = h.timestamp
          /\ 60 * (now \div 60) # h.timestamp => h \in sensorHistory'
     /\ (sensorCfg' # sensorCfg \/ relayCfg' # relayCfg) =>
          UNCHANGED <<sensorHistory, relayHistory, buttonHistory>>]_vars

C12_Witness ==
  \E s \in Sensors : \E h \in SensorRows(s) :
    /\ 60 * (now \div 60) # h.timestamp
    /\ h.alarm_max # sensorCfg[s].alarm_max
    /\ h.limit_max # sensorCfg[s].limit_max
    /\ last.kind = "sensor" /\ last.res = "insert" /\ last.at > h.timestamp

\* C13: while the clock stands where an update call with a reading v read it, a
\* Relay or Button whose call returned (it inserted, or was deduplicated) has
\* current value v and no error, and a Sensor has the stored value of the current
\* minute's row as its current value.
C13_NewestWriteWins ==
  (last.at = now /\ last.value # None) =>
    /\ (last.kind = "relay" /\ last.res \in {"insert", "none"}) =>
         RelayValue(last.owner) = last.value /\ ~ RelayError(last.owner)
    /\ (last.kind = "button" /\ last.res \in {"insert", "none"}) =>
         ButtonValue(last.owner) = last.value /\ ~ ButtonError(last.owner)
    /\ (last.kind = "sensor" /\ last.res \in {"insert", "merge"}) =>
         \E h \in SensorRows(last.owner) :
           /\ h.timestamp = 60 * (now \div 60)
           /\ h.value = last.stored
           /\ SensorValue(last.owner) = h.value

C13_Witness ==
  /\ last.kind = "relay" /\ last.res = "insert" /\ last.at = now /\ now > 0
  /\ last.before # None /\ last.before # last.value
  /\ RelayValue(last.owner) = last.value

C15_AlarmNeverFails ==
  \A c \in Callers :
    pc[c] = "evaluated" =>
      /\ local[c].res \in {"True", "False"}
      /\ local[c].value = None => local[c].res = "False"

\* the four thresholds of a Sensor or of a SensorHistory row
Thresholds(x) == <<x.limit_min, x.limit_max, x.alarm_min, x.alarm_max>>

\* C16: a Sensor.update call that creates the row of a new bucket stores the reading
\* and the entity's four thresholds verbatim; a call that merges into the bucket's
\* row replaces each stored threshold by the average of the stored one and the
\* entity's current one, so a row whose thresholds equal the entity's keeps them.
C16_ThresholdsFollow ==
  [][(IsCall /\ last'.kind = "sensor") =>
       LET s   == last'.owner
           ts  == 60 * (last'.at \div 60)
           cfg == sensorCfg[s]
       IN  /\ last'.res = "insert" =>
                \E g \in sensorHistory' \ sensorHistory :
                  /\ g.sensor = s /\ g.timestamp = ts
                  /\ g.value = last'.value
                  /\ Thresholds(g) = Thresholds(cfg)
           /\ last'.res = "merge" =>
                \E h \in sensorHistory, g \in sensorHistory' :
                  /\ h.sensor = s /\ h.timestamp = ts
                  /\ g.sensor = s /\ g.timestamp = ts
                  /\ g.limit_min = RatDiv(RatAdd(h.limit_min, cfg.limit_min), R(2))
                  /\ g.limit_max = RatDiv(RatAdd(h.limit_max, cfg.limit_max), R(2))
                  /\ g.alarm_min = RatDiv(RatAdd(h.alarm_min, cfg.alarm_min), R(2))
                  /\ g.alarm_max = RatDiv(RatAdd(h.alarm_max, cfg.alarm_max), R(2))
                  /\ Thresholds(h) = Thresholds(cfg) => Thresholds(g) = Thresholds(cfg)]_vars

\* a merge after the configuration changed within the bucket: the row holds
\* thresholds that are neither the old nor the current configuration
C16_Witness ==
  /\ last.kind = "sensor" /\ last.res = "merge"
  /\ \E h \in SensorRows(last.owner) :
       /\ h.timestamp = 60 * (last.at \div 60)
       /\ h.alarm_min # sensorCfg[last.owner].alarm_min
       /\ h.limit_min # sensorCfg[last.owner].limit_min
       /\ h.alarm_min = RatDiv(R(12), R(2))
       /\ h.limit_min = RatDiv(R(5), R(2))

\* C17: a Relay.update call that inserts stores wattage = v/100 * wattage and
\* flow = v/100 * flow with the coefficients the Relay has at that call; the
\* current wattage and flow are 0 while the Relay is in error and otherwise the
\* current value times the Relay's present coefficient over 100; a ButtonHistory
\* row has no field besides its key and its value.
C17_DerivedMetrics ==
  /\ [](/\ \A r \in Relays :
            /\ CurrentWattage(r) =
                 IF RelayError(r) THEN R(0)
                 ELSE RatDiv(RatMul(RelayValue(r), relayCfg[r].wattage), R(100))
            /\ CurrentFlow(r) =
                 IF RelayError(r) THEN R(0)
                 ELSE RatDiv(RatMul(RelayValue(r), relayCfg[r].flow), R(100))
         /\ \A h \in buttonHistory : DOMAIN h = {"button", "timestamp", "value"})
  /\ [][(IsCall /\ last'.kind = "relay" /\ last'.res = "insert") =>
          \E g \in relayHistory' \ relayHistory :
            /\ g.relay = last'.owner /\ g.timestamp = last'.at
            /\ g.value = last'.value
            /\ g.wattage = RatMul(RatDiv(last'.value, R(100)), relayCfg[last'.owner].wattage)
            /\ g.flow = RatMul(RatDiv(last'.value, R(100)), relayCfg[last'.owner].flow)]_vars

\* a half-dimmed relay whose row was stored under coefficients (40, 2) and whose
\* coefficients were set to (0, 0) afterwards: the row keeps 20 and 1, the
\* current wattage and flow are 0 although the relay is not in error
C17_Witness ==
  \E r \in Relays : \E h \in RelayRows(r) :
    /\ h.value = R(50) /\ h.wattage = R(20) /\ h.flow = R(1)
    /\ RelayValue(r) = R(50) /\ ~ RelayError(r)
    /\ relayCfg[r].wattage = R(0)
    /\ CurrentWattage(r) = R(0) /\ CurrentFlow(r) = R(0)

\* the rows of a ledger that are the most recent of their owner
Latest(rows) == {h \in rows : \A g \in rows : g.timestamp <= h.timestamp}

\* C18: a Relay or Button update without force whose reading equals the value of
\* the owner's most recent row writes nothing while that row is at most 3900
\* seconds old; once the row is older, the call inserts a row with that same
\* value, after which the owner has that value and is not in error.
C18_GateOnCurrentValue ==
  [][(IsCall /\ last'.kind \in {"relay", "button"} /\ ~ last'.force
        /\ last'.value # None) =>
       LET o    == last'.owner
           rows == IF last'.kind = "relay" THEN RelayRows(o) ELSE ButtonRows(o)
       IN  \A h \in Latest(rows) :
             h.value = last'.value =>
               IF last'.at - h.timestamp <= 3900
               THEN /\ last'.res = "none"
                    /\ UNCHANGED <<relayHistory, buttonHistory>>
               ELSE /\ last'.res = "insert"
                    /\ last'.before = None
                    /\ IF last'.kind = "relay"
                       THEN /\ relayHistory' = relayHistory \cup
                                  {g \in relayHistory' : g.relay = o /\ g.timestamp = last'.at
                                                            /\ g.value = h.value}
                            /\ relayHistory' # relayHistory
                            /\ \A r \in Relays :
                                 r = o => RelayValue(r)' = h.value /\ ~ RelayError(r)'
                       ELSE /\ buttonHistory' = buttonHistory \cup
                                  {g \in buttonHistory' : g.button = o /\ g.timestamp = last'.at
                                                             /\ g.value = h.value}
                            /\ buttonHistory' # buttonHistory
                            /\ \A b \in Buttons :
                                 b = o => ButtonValue(b)' = h.value /\ ~ ButtonError(b)']_vars

\* a relay reported the value of its last row more than 3900 seconds after that
\* row, without force, and the call inserted
C18_Witness ==
  /\ last.kind = "relay" /\ ~ last.force /\ last.res = "insert" /\ last.before = None
  /\ \E h \in RelayRows(last.owner) :
       /\ h.value = last.value
       /\ last.at - h.timestamp > 3900
       /\ \A g \in RelayRows(last.owner) : g.timestamp < last.at => g.timestamp <= h.timestamp
  /\ now = last.at
  /\ RelayValue(last.owner) = last.value

\* the readings a Sensor received in the buckets of a set
ReadingsIn(s, buckets) ==
  {received[s][b][i] : <<b, i>> \in {x \in (buckets \cap DOMAIN received[s]) \X (1..MaxCalls) :
                                       x[2] <= Len(received[s][x[1]])}}

\* v lies between the least and the greatest member of a set of readings
Within(v, readings) ==
  /\ \E lo \in readings : RatLeq(lo, v)
  /\ \E hi \in readings : RatLeq(v, hi)

\* C19: the value of every SensorHistory row lies between the least and the
\* greatest reading received in the row's minute, and a Sensor's current value,
\* when it has one, lies between the least and the greatest reading received in
\* the minutes that begin within the last 300 seconds.
C19_ValueInRange ==
  \A s \in Sensors :
    /\ \A h \in SensorRows(s) : Within(h.value, ReadingsIn(s, {h.timestamp}))
    /\ SensorValue(s) # None =>
         Within(SensorValue(s),
                ReadingsIn(s, {b \in DOMAIN received[s] : b >= now - 300}))

\* three different readings merged into one minute: the row holds a value that is
\* none of them, and it is the current value
C19_Witness ==
  \E s \in Sensors : \E h \in SensorRows(s) :
    /\ Len(received[s][h.timestamp]) = 3
    /\ ReadingsIn(s, {h.timestamp}) = Readings
    /\ h.value \notin Readings
    /\ SensorValue(s) = h.value

====
